---- MODULE Spec2Model ----
(***************************************************************************)
(* AppointMate: the appointment store (database.py) and the booking,       *)
(* rescheduling and cancellation tools (tools.py), run by concurrent       *)
(* callers (one per chat session) against one SQLite table.                *)
(*                                                                         *)
(* Time is counted in minutes from Monday 00:00 of week 0.  A datetime     *)
(* string is a pair <<format, minutes>>: the same instant written in two   *)
(* formats gives two different strings, as in SQL text comparison.         *)
(* A client name is a sequence of one-character strings.                   *)
(***************************************************************************)
EXTENDS FiniteSets, Integers, Sequences, TLC

(* ------------------------------ bounds -------------------------------- *)
MaxTicks == 1
MaxId == 2

(* The callers (chat sessions).  Next lets the first two run any           *)
(* transaction; NextP1 lets all of them book one and the same slot.        *)
Procs == 1..3

Callers == 1..2

(* --------------------------- configuration ---------------------------- *)
APPOINTMENT_DURATION_MINUTES == 60

WORKING_HOURS == [d \in 0..4 |-> <<9 * 60, 17 * 60>>]

(* ------------------------------- time --------------------------------- *)
At(day, hh, mm) == day * (24 * 60) + hh * 60 + mm

Weekday(dt) == (dt \div (24 * 60)) % 7

TimeOfDay(dt) == dt % (24 * 60)

Now0 == At(0, 9, 0)

Times == {At(0, 9, 0), At(0, 10, 0), At(5, 10, 0)}

(* --------------------------- datetime text ---------------------------- *)
Malformed == <<"bad", 0>>

UserFormat(dt) == <<"ymdhm", dt>>

IsoFormat(dt) == <<"iso", dt>>

StrptimeOk(s) == s[1] = "ymdhm"

Strptime(s) == s[2]

DateStrs == {UserFormat(t) : t \in Times}

(* ------------------------------- names -------------------------------- *)
RECURSIVE LStrip(_)
LStrip(s) == IF s # <<>> /\ Head(s) = " " THEN LStrip(Tail(s)) ELSE s

RECURSIVE RStrip(_)
RStrip(s) ==
    IF s # <<>> /\ s[Len(s)] = " " THEN RStrip(SubSeq(s, 1, Len(s) - 1)) ELSE s

Strip(s) == RStrip(LStrip(s))

Alice == <<"A">>
Bob == <<"B">>
Blank == <<" ">>

Names == {Alice, Bob}

Emails == {"a@example.org"}

(* ------------------------------- state -------------------------------- *)
VARIABLES now, store, seq, pc, args, last

vars == <<now, store, seq, pc, args, last>>

NoArgs ==
    [client_name |-> <<>>, dt |-> 0, old |-> 0, email |-> "",
     booked_at |-> 0, original_id |-> 0]

NoEvent ==
    [op |-> "none", site |-> "none", msg |-> "none", valid |-> FALSE,
     past |-> FALSE, hours |-> FALSE, booked |-> FALSE, other |-> FALSE,
     found |-> FALSE, slots |-> <<>>]

Init ==
    /\ now = Now0
    /\ store = {}
    /\ seq = 0
    /\ pc = [p \in Procs |-> "idle"]
    /\ args = [p \in Procs |-> NoArgs]
    /\ last = NoEvent

(* ------------------------------ the store ----------------------------- *)
RowsAt(s, dt_iso) == {r \in s : r.appointment_datetime = dt_iso}

IsSlotAlreadyBooked(s, dt_iso) == RowsAt(s, dt_iso) # {}

IsSlotWithinWorkingHours(dt) ==
    IF Weekday(dt) \notin DOMAIN WORKING_HOURS
    THEN FALSE
    ELSE LET start_time == WORKING_HOURS[Weekday(dt)][1]
             end_time == WORKING_HOURS[Weekday(dt)][2]
             slot_end_time == TimeOfDay(dt + APPOINTMENT_DURATION_MINUTES)
             effective_end_time ==
                 IF end_time = 0 THEN 24 * 60 - 1 ELSE end_time
         IN  start_time <= TimeOfDay(dt) /\ slot_end_time <= effective_end_time

UniqueNotEnforced(s, row_id, dt_iso) == FALSE

UniqueOnWrongColumn(s, row_id, dt_iso) == \E r \in s : r.id # row_id /\ r.duration_minutes = APPOINTMENT_DURATION_MINUTES

UniqueViolated(s, row_id, dt_iso) ==
    \E r \in s : r.id # row_id /\ r.appointment_datetime = dt_iso

NewRowNoEmail(id, client_name, dt_iso, booked_at_iso, client_email) ==
    [id |-> id, client_name |-> client_name, appointment_datetime |-> dt_iso,
     duration_minutes |-> APPOINTMENT_DURATION_MINUTES,
     booked_at |-> booked_at_iso, email |-> ""]

NewRowReusedRowid(id, client_name, dt_iso, booked_at_iso, client_email) == [id |-> IF store = {} THEN 1 ELSE 1 + CHOOSE m \in {r.id : r \in store} : \A r \in store : r.id <= m, client_name |-> client_name, appointment_datetime |-> dt_iso, duration_minutes |-> APPOINTMENT_DURATION_MINUTES, booked_at |-> booked_at_iso, email |-> client_email]

NewRow(id, client_name, dt_iso, booked_at_iso, client_email) ==
    [id |-> id, client_name |-> client_name, appointment_datetime |-> dt_iso,
     duration_minutes |-> APPOINTMENT_DURATION_MINUTES,
     booked_at |-> booked_at_iso, email |-> client_email]

UpdateRowKeepOld(s, row_id, dt_iso) ==
    s \cup {[r EXCEPT !.appointment_datetime = dt_iso] : r \in {x \in s : x.id = row_id}}

UpdateRow(s, row_id, dt_iso) ==
    {IF r.id = row_id THEN [r EXCEPT !.appointment_datetime = dt_iso] ELSE r :
        r \in s}

MatchingRowsAnyClient(s, client_name, dt_iso) == {r \in s : r.appointment_datetime = dt_iso}

MatchingRows(s, client_name, dt_iso) ==
    {r \in s : r.client_name = client_name /\ r.appointment_datetime = dt_iso}

DeleteAppointmentFromDb(s, formatted_datetime, client_name) ==
    {r \in s : ~(r.client_name = client_name
                 /\ r.appointment_datetime[2] = formatted_datetime[2])}

(* ------------------------------ helpers ------------------------------- *)
(* last: the response the latest step delivered to a caller, if it         *)
(* delivered one: the operation called, the statement the call returned    *)
(* from, the message returned, and what held of the call's arguments in    *)
(* the state before the step (dt: the slot asked for, old: the slot to     *)
(* move from; for invalid arguments only valid = FALSE is recorded).       *)
(* A step that delivers no response resets it to NoEvent.                  *)
(* cancel_appointment neither checks nor trims the name it is given; the  *)
(* other tools do both.                                                    *)
Event(op, site, msg, client_name, format_ok, dt, old) ==
    LET name == IF op = "cancel" THEN client_name ELSE Strip(client_name)
        valid == format_ok /\ (op = "cancel" \/ Strip(client_name) # <<>>)
    IN  [op |-> op, site |-> site, msg |-> msg,
         valid |-> valid,
         past |-> valid /\ op # "cancel" /\ dt < now,
         hours |-> valid /\ op = "edit" /\ IsSlotWithinWorkingHours(dt),
         booked |-> valid /\ IsSlotAlreadyBooked(store, IsoFormat(dt)),
         other |-> valid /\ \E r \in RowsAt(store, IsoFormat(dt)) :
                                r.client_name # name,
         found |-> valid /\ op \in {"edit", "cancel"}
                   /\ MatchingRows(store, name, IsoFormat(old)) # {},
         slots |-> <<>>]

Return(p, event) ==
    /\ pc' = [pc EXCEPT ![p] = "idle"]
    /\ args' = [args EXCEPT ![p] = NoArgs]
    /\ last' = event

Goto(p, label, locals) ==
    /\ pc' = [pc EXCEPT ![p] = label]
    /\ args' = [args EXCEPT ![p] = locals]
    /\ last' = NoEvent

BookEvent(p, msg) ==
    Event("book", pc[p], msg, args[p].client_name, TRUE, args[p].dt, args[p].dt)

EditEvent(p, msg) ==
    Event("edit", pc[p], msg, args[p].client_name, TRUE, args[p].dt,
          args[p].old)

InFlightBookings == Cardinality({q \in Procs : pc[q] = "add_insert"})

(* ----------------------------- booking -------------------------------- *)
BookMessage(success) == IF success THEN "BookSuccess" ELSE "BookFailed"

OnIntegrityErrorFault == "BookInternalError"

OnIntegrityError == BookMessage(FALSE)

BookChecksSelectFirst(client_name, datetime_str, clock, s) ==
    IF Strip(client_name) = <<>> THEN "BookNameRequired"
    ELSE IF ~StrptimeOk(datetime_str) THEN "BookInvalidFormat"
    ELSE IF IsSlotAlreadyBooked(s, IsoFormat(Strptime(datetime_str)))
    THEN BookMessage(FALSE)
    ELSE IF Strptime(datetime_str) < clock THEN "BookPast"
    ELSE "ok"

(* book_appointment up to and including add_appointment's pre-check        *)
(* SELECT: the checks before the SELECT read only the arguments and the    *)
(* clock.  "ok" stands for: go on to the INSERT.                           *)
BookChecks(client_name, datetime_str, clock, s) ==
    IF Strip(client_name) = <<>> THEN "BookNameRequired"
    ELSE IF ~StrptimeOk(datetime_str) THEN "BookInvalidFormat"
    ELSE IF Strptime(datetime_str) < clock THEN "BookPast"
    ELSE IF IsSlotAlreadyBooked(s, IsoFormat(Strptime(datetime_str)))
    THEN BookMessage(FALSE)
    ELSE "ok"

BookAppointment(p, datetime_str, client_name, client_email) ==
    /\ pc[p] = "idle"
    /\ seq + InFlightBookings < MaxId
    /\ IF BookChecks(client_name, datetime_str, now, store) = "ok"
       THEN Goto(p, "add_insert",
                 [NoArgs EXCEPT !.client_name = client_name,
                                !.dt = Strptime(datetime_str),
                                !.old = Strptime(datetime_str),
                                !.email = client_email,
                                !.booked_at = IsoFormat(now)])
       ELSE Return(p, Event("book", "add_select",
                            BookChecks(client_name, datetime_str, now, store),
                            client_name, StrptimeOk(datetime_str),
                            Strptime(datetime_str), Strptime(datetime_str)))
    /\ UNCHANGED <<now, store, seq>>

AddInsert(p) ==
    /\ pc[p] = "add_insert"
    /\ IF UniqueViolated(store, seq + 1, IsoFormat(args[p].dt))
       THEN /\ Return(p, BookEvent(p, OnIntegrityError))
            /\ UNCHANGED <<store, seq>>
       ELSE /\ store' = store \cup
                   {NewRow(seq + 1, args[p].client_name, IsoFormat(args[p].dt),
                           args[p].booked_at, args[p].email)}
            /\ seq' = seq + 1
            /\ Return(p, BookEvent(p, BookMessage(TRUE)))
    /\ UNCHANGED now

(* ---------------------------- reschedule ------------------------------ *)
EditChecksBookedFirst(client_name, current_datetime_str, new_datetime_str, clock, s) ==
    IF Strip(client_name) = <<>> THEN "EditNameRequired"
    ELSE IF ~StrptimeOk(current_datetime_str) \/ ~StrptimeOk(new_datetime_str)
    THEN "EditInvalidFormat"
    ELSE IF IsSlotAlreadyBooked(s, IsoFormat(Strptime(new_datetime_str)))
    THEN "EditSlotBooked"
    ELSE IF Strptime(new_datetime_str) < clock THEN "EditPast"
    ELSE IF ~IsSlotWithinWorkingHours(Strptime(new_datetime_str))
    THEN "EditOutOfHours"
    ELSE "ok"

EditChecksLookupFirst(client_name, current_datetime_str, new_datetime_str, clock, s) ==
    IF Strip(client_name) = <<>> THEN "EditNameRequired"
    ELSE IF ~StrptimeOk(current_datetime_str) \/ ~StrptimeOk(new_datetime_str)
    THEN "EditInvalidFormat"
    ELSE IF Strptime(new_datetime_str) < clock THEN "EditPast"
    ELSE IF ~IsSlotWithinWorkingHours(Strptime(new_datetime_str))
    THEN "EditOutOfHours"
    ELSE IF MatchingRows(s, Strip(client_name),
                         IsoFormat(Strptime(current_datetime_str))) = {}
    THEN "EditFailed"
    ELSE IF IsSlotAlreadyBooked(s, IsoFormat(Strptime(new_datetime_str)))
    THEN "EditSlotBooked"
    ELSE "ok"

EditChecksIgnoreOwn(client_name, current_datetime_str, new_datetime_str, clock, s) ==
    IF Strip(client_name) = <<>> THEN "EditNameRequired"
    ELSE IF ~StrptimeOk(current_datetime_str) \/ ~StrptimeOk(new_datetime_str)
    THEN "EditInvalidFormat"
    ELSE IF Strptime(new_datetime_str) < clock THEN "EditPast"
    ELSE IF ~IsSlotWithinWorkingHours(Strptime(new_datetime_str))
    THEN "EditOutOfHours"
    ELSE IF \E r \in RowsAt(s, IsoFormat(Strptime(new_datetime_str))) :
                r.client_name # Strip(client_name)
    THEN "EditSlotBooked"
    ELSE "ok"

(* edit_appointment up to and including is_slot_already_booked.            *)
EditChecks(client_name, current_datetime_str, new_datetime_str, clock, s) ==
    IF Strip(client_name) = <<>> THEN "EditNameRequired"
    ELSE IF ~StrptimeOk(current_datetime_str) \/ ~StrptimeOk(new_datetime_str)
    THEN "EditInvalidFormat"
    ELSE IF Strptime(new_datetime_str) < clock THEN "EditPast"
    ELSE IF ~IsSlotWithinWorkingHours(Strptime(new_datetime_str))
    THEN "EditOutOfHours"
    ELSE IF IsSlotAlreadyBooked(s, IsoFormat(Strptime(new_datetime_str)))
    THEN "EditSlotBooked"
    ELSE "ok"

EditAppointment(p, client_name, current_datetime_str, new_datetime_str) ==
    /\ pc[p] = "idle"
    /\ IF EditChecks(client_name, current_datetime_str, new_datetime_str,
                     now, store) = "ok"
       THEN Goto(p, "upd_select_new",
                 [NoArgs EXCEPT !.client_name = Strip(client_name),
                                !.old = Strptime(current_datetime_str),
                                !.dt = Strptime(new_datetime_str)])
       ELSE Return(p, Event("edit", "is_booked",
                            EditChecks(client_name, current_datetime_str,
                                       new_datetime_str, now, store),
                            client_name,
                            StrptimeOk(current_datetime_str)
                                /\ StrptimeOk(new_datetime_str),
                            Strptime(new_datetime_str),
                            Strptime(current_datetime_str)))
    /\ UNCHANGED <<now, store, seq>>

UpdSelectNew(p) ==
    /\ pc[p] = "upd_select_new"
    /\ IF IsSlotAlreadyBooked(store, IsoFormat(args[p].dt))
       THEN Return(p, EditEvent(p, "EditFailed"))
       ELSE Goto(p, "upd_select_old", args[p])
    /\ UNCHANGED <<now, store, seq>>

UpdSelectOld(p) ==
    /\ pc[p] = "upd_select_old"
    /\ LET found == MatchingRows(store, args[p].client_name,
                                 IsoFormat(args[p].old))
       IN  IF found = {}
           THEN Return(p, EditEvent(p, "EditFailed"))
           ELSE \E r \in found :
                    Goto(p, "upd_update", [args[p] EXCEPT !.original_id = r.id])
    /\ UNCHANGED <<now, store, seq>>

UpdUpdate(p) ==
    /\ pc[p] = "upd_update"
    /\ IF \A r \in store : r.id # args[p].original_id
       THEN /\ Return(p, EditEvent(p, "EditFailed"))
            /\ UNCHANGED store
       ELSE IF UniqueViolated(store, args[p].original_id, IsoFormat(args[p].dt))
       THEN /\ Return(p, EditEvent(p, "EditFailed"))
            /\ UNCHANGED store
       ELSE /\ store' = UpdateRow(store, args[p].original_id,
                                  IsoFormat(args[p].dt))
            /\ Return(p, EditEvent(p, "EditSuccess"))
    /\ UNCHANGED <<now, seq>>

(* --------------------------- storage errors --------------------------- *)
(* A statement or the commit raises an error other than the constraint's   *)
(* (the database is locked, the disk is full, ...).  written is the store  *)
(* as the connection's open transaction has it when the error is raised;   *)
(* the handlers of add_appointment and update_appointment_in_db roll it    *)
(* back, and both functions return False.                                  *)
OnStorageErrorKeep(before, written) == written

OnStorageError(before, written) == before

(* add_appointment's pre-check SELECT raises.                              *)
AddSelectError(p, datetime_str, client_name, client_email) ==
    /\ pc[p] = "idle"
    /\ BookChecks(client_name, datetime_str, now, store)
           \in {"ok", BookMessage(FALSE)}
    /\ store' = OnStorageError(store, store)
    /\ Return(p, Event("book", "add_select_error", BookMessage(FALSE),
                       client_name, TRUE, Strptime(datetime_str),
                       Strptime(datetime_str)))
    /\ UNCHANGED <<now, seq>>

(* add_appointment's INSERT or its commit raises.                          *)
AddInsertError(p) ==
    /\ pc[p] = "add_insert"
    /\ LET written ==
               IF UniqueViolated(store, seq + 1, IsoFormat(args[p].dt))
               THEN store
               ELSE store \cup {NewRow(seq + 1, args[p].client_name,
                                       IsoFormat(args[p].dt),
                                       args[p].booked_at, args[p].email)}
       IN  store' = OnStorageError(store, written)
    /\ Return(p, [BookEvent(p, BookMessage(FALSE))
                     EXCEPT !.site = "add_insert_error"])
    /\ UNCHANGED <<now, seq>>

(* is_slot_already_booked raises: edit_appointment does not catch it.      *)
IsSlotAlreadyBookedError(p, client_name, current_datetime_str, new_datetime_str) ==
    /\ pc[p] = "idle"
    /\ EditChecks(client_name, current_datetime_str, new_datetime_str,
                  now, store) \in {"ok", "EditSlotBooked"}
    /\ Return(p, Event("edit", "is_booked_error", "EditException",
                       client_name, TRUE, Strptime(new_datetime_str),
                       Strptime(current_datetime_str)))
    /\ UNCHANGED <<now, store, seq>>

(* One of update_appointment_in_db's SELECTs, its UPDATE or its commit     *)
(* raises.                                                                 *)
UpdateError(p) ==
    /\ pc[p] \in {"upd_select_new", "upd_select_old", "upd_update"}
    /\ LET written ==
               IF /\ pc[p] = "upd_update"
                  /\ \E r \in store : r.id = args[p].original_id
                  /\ ~UniqueViolated(store, args[p].original_id,
                                     IsoFormat(args[p].dt))
               THEN UpdateRow(store, args[p].original_id,
                              IsoFormat(args[p].dt))
               ELSE store
       IN  store' = OnStorageError(store, written)
    /\ Return(p, [EditEvent(p, "EditFailed")
                     EXCEPT !.site = "upd_error"])
    /\ UNCHANGED <<now, seq>>

(* get_db_connection raises in add_appointment (the database cannot be     *)
(* opened): the call is made before add_appointment's try, and             *)
(* book_appointment calls add_appointment outside any try.                 *)
AddConnectError(p, datetime_str, client_name, client_email) ==
    /\ pc[p] = "idle"
    /\ BookChecks(client_name, datetime_str, now, store)
           \in {"ok", BookMessage(FALSE)}
    /\ Return(p, Event("book", "add_connect_error", "BookException",
                       client_name, TRUE, Strptime(datetime_str),
                       Strptime(datetime_str)))
    /\ UNCHANGED <<now, store, seq>>

(* get_db_connection raises in update_appointment_in_db, before its try:   *)
(* edit_appointment catches the exception of the call.                     *)
UpdateConnectError(p) ==
    /\ pc[p] = "upd_select_new"
    /\ Return(p, [EditEvent(p, "EditInternalError")
                     EXCEPT !.site = "upd_connect_error"])
    /\ UNCHANGED <<now, store, seq>>

(* ------------------------- abandoned calls ---------------------------- *)
(* The write of a transaction in two steps, as the code has it: the        *)
(* statement (cursor.execute of the INSERT or the UPDATE), which opens the *)
(* connection's transaction and takes the database's write lock, and       *)
(* conn.commit(), which makes the write visible to the other connections.  *)
(* In between the store is what the other connections read; the write is   *)
(* known to its connection only, and no other connection can write.        *)
WriteLockFree == \A q \in Procs : pc[q] \notin {"add_commit", "upd_commit"}

AddInsertStatement(p) ==
    /\ pc[p] = "add_insert"
    /\ WriteLockFree
    /\ IF UniqueViolated(store, seq + 1, IsoFormat(args[p].dt))
       THEN Return(p, BookEvent(p, OnIntegrityError))
       ELSE Goto(p, "add_commit", args[p])
    /\ UNCHANGED <<now, store, seq>>

AddCommit(p) ==
    /\ pc[p] = "add_commit"
    /\ store' = store \cup
            {NewRow(seq + 1, args[p].client_name, IsoFormat(args[p].dt),
                    args[p].booked_at, args[p].email)}
    /\ seq' = seq + 1
    /\ Return(p, [BookEvent(p, BookMessage(TRUE)) EXCEPT !.site = "add_insert"])
    /\ UNCHANGED now

UpdUpdateStatement(p) ==
    /\ pc[p] = "upd_update"
    /\ WriteLockFree
    /\ IF /\ \E r \in store : r.id = args[p].original_id
          /\ UniqueViolated(store, args[p].original_id, IsoFormat(args[p].dt))
       THEN Return(p, EditEvent(p, "EditFailed"))
       ELSE Goto(p, "upd_commit", args[p])
    /\ UNCHANGED <<now, store, seq>>

UpdCommit(p) ==
    /\ pc[p] = "upd_commit"
    /\ store' = UpdateRow(store, args[p].original_id, IsoFormat(args[p].dt))
    /\ Return(p, [EditEvent(p, IF \E r \in store : r.id = args[p].original_id
                                THEN "EditSuccess" ELSE "EditFailed")
                     EXCEPT !.site = "upd_update"])
    /\ UNCHANGED <<now, seq>>

(* The store as the connection of p has it in its open transaction.        *)
PendingWrite(p) ==
    IF pc[p] = "add_commit"
    THEN store \cup {NewRow(seq + 1, args[p].client_name, IsoFormat(args[p].dt),
                            args[p].booked_at, args[p].email)}
    ELSE IF pc[p] = "upd_commit"
    THEN UpdateRow(store, args[p].original_id, IsoFormat(args[p].dt))
    ELSE store

OnAbandonKeep(before, written) == written

(* What is left of a transaction that ends without conn.commit(): the      *)
(* database discards the connection's uncommitted write.                   *)
OnAbandon(before, written) == before

AbandonEvent(p) ==
    [NoEvent EXCEPT !.op = "abandon", !.site = pc[p],
                    !.booked = PendingWrite(p) # store]

(* The caller gives up on a call that is between two of its steps, and the *)
(* call goes no further: no response, no commit.                           *)
Abandon(p) ==
    /\ pc[p] # "idle"
    /\ store' = OnAbandon(store, PendingWrite(p))
    /\ Return(p, AbandonEvent(p))
    /\ UNCHANGED <<now, seq>>

(* --------------------------- notification ----------------------------- *)
(* book_appointment, after add_appointment returned True, calls            *)
(* send_confirmation_email_internal with the details of the appointment.   *)
(* The function returns a status text on every path: skipped (SMTP not     *)
(* configured), sent, authentication error, any other error (its except    *)
(* clauses catch every Exception of the sending).                          *)
NotifyOutcomes ==
    {"notify_skipped", "notify_sent", "notify_auth_error", "notify_error"}

BookResponseFailOnError(outcome) == IF outcome \in {"notify_auth_error", "notify_error"} THEN "BookFailed" ELSE "BookSuccess"

(* What book_appointment hands back after the notification: the success    *)
(* text, with the status as its suffix (recorded as the event's site).     *)
BookResponse(outcome) == "BookSuccess"

(* add_appointment has just returned True to book_appointment.             *)
NotificationPending ==
    last.op = "book" /\ last.site = "add_insert" /\ last.msg = "BookSuccess"

SendConfirmationEmailInternal ==
    /\ NotificationPending
    /\ \E outcome \in NotifyOutcomes :
           last' = [last EXCEPT !.op = "notify", !.site = outcome,
                                !.msg = BookResponse(outcome)]
    /\ UNCHANGED <<now, store, seq, pc, args>>

(* --------------------------- cancellation ----------------------------- *)
CancelMessageAlwaysSuccess(result) == "CancelSuccess"

CancelMessage(result) == IF result THEN "CancelSuccess" ELSE "CancelFailed"

CancelAppointment(p, parsed_datetime, client_name) ==
    /\ pc[p] = "idle"
    /\ IF ~StrptimeOk(parsed_datetime)
       THEN /\ Return(p, Event("cancel", "cancel", "CancelInvalidFormat",
                               client_name, FALSE, Strptime(parsed_datetime),
                               Strptime(parsed_datetime)))
            /\ UNCHANGED store
       ELSE LET formatted_datetime == UserFormat(Strptime(parsed_datetime))
                after == DeleteAppointmentFromDb(store, formatted_datetime,
                                                 client_name)
            IN  /\ store' = after
                /\ Return(p, Event("cancel", "cancel",
                                   CancelMessage(after # store),
                                   client_name, TRUE, Strptime(parsed_datetime),
                                   Strptime(parsed_datetime)))
    /\ UNCHANGED <<now, seq>>

(* ------------------------- slot calculator ---------------------------- *)
FromIsoFormat(s) == s[2]

(* datetime.combine(target_date.date(), time(0, 0))                        *)
DayStart(target_date) == (target_date \div (24 * 60)) * (24 * 60)

(* The query compares ISO strings of one format, which order as the        *)
(* timestamps they stand for.                                              *)
GetBookedSlots(s, start_date, end_date) ==
    {r.appointment_datetime :
        r \in {x \in s : /\ IsoFormat(start_date)[2] <= x.appointment_datetime[2]
                         /\ x.appointment_datetime[2] < IsoFormat(end_date)[2]}}

RECURSIVE SlotsFromStrict(_, _, _)
SlotsFromStrict(current_slot_start_dt, end_of_work_dt, booked_slot_datetimes) ==
    IF current_slot_start_dt + APPOINTMENT_DURATION_MINUTES < end_of_work_dt
    THEN (IF current_slot_start_dt \notin booked_slot_datetimes
          THEN <<UserFormat(current_slot_start_dt)>>
          ELSE <<>>)
         \o SlotsFromStrict(current_slot_start_dt + APPOINTMENT_DURATION_MINUTES,
                            end_of_work_dt, booked_slot_datetimes)
    ELSE <<>>

RECURSIVE SlotsFromOverlap(_, _, _)
SlotsFromOverlap(current_slot_start_dt, end_of_work_dt, booked_slot_datetimes) ==
    IF current_slot_start_dt + APPOINTMENT_DURATION_MINUTES <= end_of_work_dt
    THEN (IF \A b \in booked_slot_datetimes :
                 \/ b + APPOINTMENT_DURATION_MINUTES <= current_slot_start_dt
                 \/ current_slot_start_dt + APPOINTMENT_DURATION_MINUTES <= b
          THEN <<UserFormat(current_slot_start_dt)>>
          ELSE <<>>)
         \o SlotsFromOverlap(current_slot_start_dt + APPOINTMENT_DURATION_MINUTES,
                             end_of_work_dt, booked_slot_datetimes)
    ELSE <<>>

(* The while loop of find_available_slots.                                 *)
RECURSIVE SlotsFrom(_, _, _)
SlotsFrom(current_slot_start_dt, end_of_work_dt, booked_slot_datetimes) ==
    IF current_slot_start_dt + APPOINTMENT_DURATION_MINUTES <= end_of_work_dt
    THEN (IF current_slot_start_dt \notin booked_slot_datetimes
          THEN <<UserFormat(current_slot_start_dt)>>
          ELSE <<>>)
         \o SlotsFrom(current_slot_start_dt + APPOINTMENT_DURATION_MINUTES,
                      end_of_work_dt, booked_slot_datetimes)
    ELSE <<>>

FindAvailableSlotsAnyDay(s, target_date) ==
    LET day_start == DayStart(target_date)
        booked_slot_datetimes ==
            {FromIsoFormat(x) :
                x \in GetBookedSlots(s, day_start, day_start + 24 * 60)}
    IN  SlotsFrom(day_start + WORKING_HOURS[0][1],
                  day_start + WORKING_HOURS[0][2], booked_slot_datetimes)

FindAvailableSlots(s, target_date) ==
    IF Weekday(target_date) \notin DOMAIN WORKING_HOURS
    THEN <<>>
    ELSE LET start_time == WORKING_HOURS[Weekday(target_date)][1]
             end_time == WORKING_HOURS[Weekday(target_date)][2]
             day_start == DayStart(target_date)
             day_end == day_start + 24 * 60
             booked_slot_datetimes ==
                 {FromIsoFormat(x) : x \in GetBookedSlots(s, day_start, day_end)}
         IN  SlotsFrom(day_start + start_time, day_start + end_time,
                       booked_slot_datetimes)

SlotsEvent(available_slots) ==
    [NoEvent EXCEPT !.op = "slots", !.site = "find_available_slots",
                    !.msg = "Slots", !.valid = TRUE,
                    !.slots = available_slots]

(* A caller lists the free slots of a date: one SELECT, then the loop.     *)
ListSlots(p, target_date) ==
    /\ pc[p] = "idle"
    /\ Return(p, SlotsEvent(FindAvailableSlots(store, target_date)))
    /\ UNCHANGED <<now, store, seq>>

(* ------------------------------ listing ------------------------------- *)
(* The SELECT of list_appointments: the appointment_datetime of the rows   *)
(* whose client_name is the given text, compared as SQLite compares TEXT   *)
(* (character by character; upper and lower case, and blanks, differ).     *)
ListAppointmentsTrimmed(s, client_name) == {r.appointment_datetime : r \in {x \in s : Strip(x.client_name) = Strip(client_name)}}

ListAppointments(s, client_name) ==
    {r.appointment_datetime : r \in {x \in s : x.client_name = client_name}}

(* What list_client_appointments answers: its texts for a blank name, for  *)
(* a listing with entries (which it shows) and for an empty listing.       *)
ListMessage(client_name, success) ==
    IF Strip(client_name) = <<>> THEN "ListNameRequiredError"
    ELSE IF success # {} THEN "ListSuccess"
    ELSE "ListNoAppointmentsError"

(* slots: the set list_appointments returned to the tool (none when the    *)
(* tool did not call it); msg: the text the tool made of it.               *)
ListEvent(client_name, success) ==
    [NoEvent EXCEPT !.op = "list", !.site = "list_appointments",
                    !.msg = ListMessage(client_name, success),
                    !.valid = Strip(client_name) # <<>>,
                    !.slots = IF Strip(client_name) = <<>> THEN {}
                              ELSE success]

ListClientAppointments(p, client_name) ==
    /\ pc[p] = "idle"
    /\ Return(p, ListEvent(client_name, ListAppointments(store, client_name)))
    /\ UNCHANGED <<now, store, seq>>

(* ------------------------------- clock -------------------------------- *)
Tick ==
    /\ now < Now0 + MaxTicks * 60
    /\ now' = now + 60
    /\ last' = NoEvent
    /\ UNCHANGED <<store, seq, pc, args>>

(* --------------------------- specification ---------------------------- *)
(* The calls the callers make: every well-formed call over Times and       *)
(* Names, and one call for each way an argument can be invalid.            *)
BookCalls ==
    (DateStrs \X Names \X Emails)
        \cup {<<UserFormat(At(0, 10, 0)), Blank, "a@example.org">>,
              <<Malformed, Alice, "a@example.org">>}

EditCalls ==
    (Names \X DateStrs \X DateStrs)
        \cup {<<Blank, UserFormat(At(0, 9, 0)), UserFormat(At(0, 10, 0))>>,
              <<Alice, Malformed, UserFormat(At(0, 10, 0))>>,
              <<Alice, UserFormat(At(0, 9, 0)), Malformed>>}

CancelCalls ==
    (DateStrs \X Names) \cup {<<Malformed, Alice>>}

Next ==
    \/ \E p \in Callers, c \in BookCalls : BookAppointment(p, c[1], c[2], c[3])
    \/ \E p \in Callers : AddInsert(p)
    \/ \E p \in Callers, c \in EditCalls : EditAppointment(p, c[1], c[2], c[3])
    \/ \E p \in Callers : UpdSelectNew(p)
    \/ \E p \in Callers : UpdSelectOld(p)
    \/ \E p \in Callers : UpdUpdate(p)
    \/ \E p \in Callers, c \in CancelCalls : CancelAppointment(p, c[1], c[2])
    \/ Tick

Spec == Init /\ [][Next]_vars

(* Bookings only, all of one slot that is free at the start: any number of *)
(* callers, each booking it as often as it likes, their pre-checks and     *)
(* inserts interleaved, while the clock runs.                              *)
P1Slot == At(0, 10, 0)

NextP1 ==
    \/ \E p \in Procs, n \in Names, e \in Emails :
           BookAppointment(p, UserFormat(P1Slot), n, e)
    \/ \E p \in Procs : AddInsert(p)
    \/ Tick

SpecP1 == Init /\ [][NextP1]_vars

(* The slot calculator alone, over the stores bookings can leave: any set  *)
(* of appointments with distinct starts among SlotTimes, on and off the    *)
(* tiling grid, inside and outside the working window; any caller lists    *)
(* any date of SlotDates, at midnight or at a time of day.                 *)
SlotTimes ==
    <<At(0, 9, 0), At(0, 10, 0), At(0, 10, 30), At(0, 16, 0), At(0, 17, 0),
      At(5, 9, 0)>>

SlotStores ==
    {{NewRow(i, Alice, IsoFormat(SlotTimes[i]), IsoFormat(Now0),
             "a@example.org") : i \in ids} : ids \in SUBSET DOMAIN SlotTimes}

SlotDates == {At(0, 0, 0), At(0, 13, 37), At(1, 0, 0), At(5, 0, 0), At(6, 8, 0)}

InitSlots ==
    /\ now = Now0
    /\ store \in SlotStores
    /\ seq = Len(SlotTimes)
    /\ pc = [p \in Procs |-> "idle"]
    /\ args = [p \in Procs |-> NoArgs]
    /\ last = NoEvent

NextSlots == \E p \in Callers, d \in SlotDates : ListSlots(p, d)

SpecSlots == InitSlots /\ [][NextSlots]_vars

(* The end-to-end scenario: callers take turns, one call at a time; Alice  *)
(* books 14:00 of a working day when the store is empty, the appointment   *)
(* is moved to 15:00, then cancelled; any caller lists the day at any      *)
(* point, and the clock runs.                                              *)
E2ESlot14 == At(1, 14, 0)

E2ESlot15 == At(1, 15, 0)

AllIdle == \A q \in Procs : pc[q] = "idle"

OnlyAppointment(s, client_name, dt) ==
    \E r \in s : s = {r} /\ r.client_name = client_name
                         /\ r.appointment_datetime = IsoFormat(dt)

NextE2E ==
    \/ \E p \in Callers, e \in Emails :
           /\ AllIdle /\ store = {}
           /\ BookAppointment(p, UserFormat(E2ESlot14), Alice, e)
    \/ \E p \in Callers : AddInsert(p)
    \/ \E p \in Callers :
           /\ AllIdle /\ OnlyAppointment(store, Alice, E2ESlot14)
           /\ EditAppointment(p, Alice, UserFormat(E2ESlot14),
                              UserFormat(E2ESlot15))
    \/ \E p \in Callers : UpdSelectNew(p)
    \/ \E p \in Callers : UpdSelectOld(p)
    \/ \E p \in Callers : UpdUpdate(p)
    \/ \E p \in Callers :
           /\ AllIdle /\ OnlyAppointment(store, Alice, E2ESlot15)
           /\ CancelAppointment(p, UserFormat(E2ESlot15), Alice)
    \/ \E p \in Callers : ListSlots(p, DayStart(E2ESlot14))
    \/ Tick

SpecE2E == Init /\ [][NextE2E]_vars

(* The working-hours check alone: a caller holds a timestamp, any half     *)
(* hour of a Monday, a Friday or a Saturday, and asks whether it is within *)
(* working hours.                                                          *)
HoursTimes == {At(d, h, mi) : d \in {0, 4, 5}, h \in 0..23, mi \in {0, 30}}

HoursEvent(within) ==
    [NoEvent EXCEPT !.op = "hours", !.site = "is_within_hours",
                    !.msg = "Hours", !.valid = TRUE, !.hours = within]

IsWithinHoursCall(p) ==
    /\ pc[p] = "idle"
    /\ last' = HoursEvent(IsSlotWithinWorkingHours(args[p].dt))
    /\ UNCHANGED <<now, store, seq, pc, args>>

InitHours ==
    /\ now = Now0
    /\ store = {}
    /\ seq = 0
    /\ pc = [p \in Procs |-> "idle"]
    /\ \E t \in HoursTimes : args = [p \in Procs |-> [NoArgs EXCEPT !.dt = t]]
    /\ last = NoEvent

NextHours == \E p \in Callers : IsWithinHoursCall(p)

SpecHours == InitHours /\ [][NextHours]_vars

(* Bookings with their notification: the success branch of                *)
(* book_appointment runs straight after add_appointment returned; the      *)
(* notification neither reads nor writes the store.                        *)
NextNotify ==
    \/ /\ ~NotificationPending
       /\ \E p \in Callers, c \in BookCalls :
              BookAppointment(p, c[1], c[2], c[3])
    \/ /\ ~NotificationPending
       /\ \E p \in Callers : AddInsert(p)
    \/ SendConfirmationEmailInternal
    \/ /\ ~NotificationPending
       /\ Tick

SpecNotify == Init /\ [][NextNotify]_vars

(* Two callers, one booking each under its own name, of different slots    *)
(* that are free when the call is made; their steps interleave in any      *)
(* order while the clock runs.                                             *)
PairName(p) == IF p = 1 THEN Alice ELSE Bob

NextPair ==
    \/ \E p \in Callers, t \in Times, e \in Emails :
           /\ ~\E r \in store : r.client_name = PairName(p)
           /\ \A q \in Procs : pc[q] = "add_insert" => args[q].dt # t
           /\ ~IsSlotAlreadyBooked(store, IsoFormat(t))
           /\ BookAppointment(p, UserFormat(t), PairName(p), e)
    \/ \E p \in Callers : AddInsert(p)
    \/ Tick

SpecPair == Init /\ [][NextPair]_vars

(* The transactions with storage errors: every call of Spec, and at every  *)
(* statement that reaches the database the possibility that it raises.     *)
NextFaults ==
    \/ Next
    \/ \E p \in Callers, c \in BookCalls : AddSelectError(p, c[1], c[2], c[3])
    \/ \E p \in Callers : AddInsertError(p)
    \/ \E p \in Callers, c \in EditCalls :
           IsSlotAlreadyBookedError(p, c[1], c[2], c[3])
    \/ \E p \in Callers : UpdateError(p)

SpecFaults == Init /\ [][NextFaults]_vars

(* Bookings and reschedules with the write statement and the commit as    *)
(* separate steps, and callers that abandon a call between any two steps.  *)
NextAbandon ==
    \/ \E p \in Callers, d \in DateStrs, n \in Names, e \in Emails :
           BookAppointment(p, d, n, e)
    \/ \E p \in Callers : AddInsertStatement(p)
    \/ \E p \in Callers : AddCommit(p)
    \/ \E p \in Callers, n \in Names, c \in DateStrs, d \in DateStrs :
           EditAppointment(p, n, c, d)
    \/ \E p \in Callers : UpdSelectNew(p)
    \/ \E p \in Callers : UpdSelectOld(p)
    \/ \E p \in Callers : UpdUpdateStatement(p)
    \/ \E p \in Callers : UpdCommit(p)
    \/ \E p \in Callers : Abandon(p)
    \/ Tick

SpecAbandon == Init /\ [][NextAbandon]_vars

(* Listings by name over the stores bookings can leave: every slot of     *)
(* Times free or held under one of ListHolders, names that differ in case  *)
(* or in a trailing blank only; any caller lists any name of ListNames.    *)
LowerAlice == <<"a">>

AliceBlank == <<"A", " ">>

ListHolders == {Alice, LowerAlice, AliceBlank}

ListNames == ListHolders \cup {Bob, Blank}

ListTimes == <<At(0, 9, 0), At(0, 10, 0), At(5, 10, 0)>>

ListStores ==
    {{NewRow(i, h[i], IsoFormat(ListTimes[i]), IsoFormat(Now0),
             "a@example.org") : i \in DOMAIN h} :
        h \in UNION {[ids -> ListHolders] : ids \in SUBSET DOMAIN ListTimes}}

InitList ==
    /\ now = Now0
    /\ store \in ListStores
    /\ seq = Len(ListTimes)
    /\ pc = [p \in Procs |-> "idle"]
    /\ args = [p \in Procs |-> NoArgs]
    /\ last = NoEvent

NextList == \E p \in Callers, n \in ListNames : ListClientAppointments(p, n)

SpecList == InitList /\ [][NextList]_vars

(* Bookings and reschedules while the database may be unavailable: at      *)
(* every opening of a connection and at every statement the possibility    *)
(* that it raises.                                                         *)
NextUnavailable ==
    \/ \E p \in Callers, c \in BookCalls : BookAppointment(p, c[1], c[2], c[3])
    \/ \E p \in Callers : AddInsert(p)
    \/ \E p \in Callers, c \in EditCalls : EditAppointment(p, c[1], c[2], c[3])
    \/ \E p \in Callers : UpdSelectNew(p)
    \/ \E p \in Callers : UpdSelectOld(p)
    \/ \E p \in Callers : UpdUpdate(p)
    \/ \E p \in Callers, c \in BookCalls : AddConnectError(p, c[1], c[2], c[3])
    \/ \E p \in Callers, c \in BookCalls : AddSelectError(p, c[1], c[2], c[3])
    \/ \E p \in Callers : AddInsertError(p)
    \/ \E p \in Callers, c \in EditCalls :
           IsSlotAlreadyBookedError(p, c[1], c[2], c[3])
    \/ \E p \in Callers : UpdateConnectError(p)
    \/ \E p \in Callers : UpdateError(p)

SpecUnavailable == Init /\ [][NextUnavailable]_vars

(* Every call of Spec, and reschedules whose client_name argument carries  *)
(* blanks around the name.                                                 *)
PaddedAlice == <<" ", "A">>

PaddedEditCalls == {PaddedAlice} \X DateStrs \X DateStrs

NextOwners ==
    \/ Next
    \/ \E p \in Callers, c \in PaddedEditCalls :
           EditAppointment(p, c[1], c[2], c[3])

SpecOwners == Init /\ [][NextOwners]_vars

(* Bookings of slots on and off the hour: the start_times a caller may     *)
(* ask for are any text of the format, not only the slots a listing shows. *)
OverlapTimes == {At(0, 10, 0), At(0, 10, 30), At(0, 11, 0)}

NextOverlap ==
    \/ \E p \in Callers, t \in OverlapTimes, n \in Names, e \in Emails :
           BookAppointment(p, UserFormat(t), n, e)
    \/ \E p \in Callers : AddInsert(p)
    \/ Tick

SpecOverlap == Init /\ [][NextOverlap]_vars

(* Listing, then booking: a caller lists today or a later day, and the     *)
(* next call is a booking of one of the slots listed, under any name of    *)
(* Names, while no other transaction is under way; the clock runs.         *)
BookableDates == {DayStart(Now0), At(1, 0, 0), At(5, 0, 0)}

BookListed(p, client_name, client_email) ==
    /\ last.op = "slots"
    /\ AllIdle
    /\ \E k \in 1..Len(last.slots) :
           BookAppointment(p, last.slots[k], client_name, client_email)

NextBookable ==
    \/ \E p \in Callers, d \in BookableDates : ListSlots(p, d)
    \/ \E p \in Callers, n \in Names, e \in Emails : BookListed(p, n, e)
    \/ \E p \in Callers : AddInsert(p)
    \/ Tick

SpecBookable == Init /\ [][NextBookable]_vars

(* Every call of Spec, from the state Alice's booking of Monday 09:00,     *)
(* made at 09:00, leaves.                                                  *)
InitSameSlot ==
    /\ now = Now0
    /\ store = {NewRow(1, Alice, IsoFormat(Now0), IsoFormat(Now0),
                       "a@example.org")}
    /\ seq = 1
    /\ pc = [p \in Procs |-> "idle"]
    /\ args = [p \in Procs |-> NoArgs]
    /\ last = NoEvent

SpecSameSlot == InitSameSlot /\ [][Next]_vars

(* ============================== claims =============================== *)
StartOf(r) == r.appointment_datetime[2]

Ids(s) == {r.id : r \in s}

BookedAt(s, dt) == \E r \in s : StartOf(r) = dt

(* The working window as the policy states it: a working weekday, at or    *)
(* after open_time, ending at or before close_time of the same day.        *)
InWorkingWindow(dt) ==
    /\ Weekday(dt) \in DOMAIN WORKING_HOURS
    /\ WORKING_HOURS[Weekday(dt)][1] <= TimeOfDay(dt)
    /\ TimeOfDay(dt) + APPOINTMENT_DURATION_MINUTES
           <= WORKING_HOURS[Weekday(dt)][2]

(* C1 (I1): in every reachable state no two distinct committed             *)
(* appointments have the same start_time, whatever the interleaving of     *)
(* bookings, reschedules and cancellations.                                *)
C1_UniqueStart ==
    \A a \in store, b \in store : a # b => StartOf(a) # StartOf(b)

(* A write that collided with a committed appointment after its own checks *)
(* had passed was turned away, with two appointments in the store.         *)
C1_Witness ==
    /\ Cardinality(store) = 2
    /\ last.site \in {"add_insert", "upd_update"}
    /\ last.msg \in {"BookFailed", "EditFailed"}
    /\ last.booked

(* C2 (P1): under SpecP1, once any booking of the slot has returned        *)
(* success or failure, exactly one booking has succeeded; a booking        *)
(* returns success exactly when its INSERT commits, so every other         *)
(* booking returned failure.                                               *)
C2_ExactlyOneSucceeds ==
    /\ [](last.msg \in {"BookSuccess", "BookFailed"}
             => /\ seq = 1
                /\ Cardinality(store) = 1
                /\ BookedAt(store, P1Slot))
    /\ [][(last'.msg = "BookSuccess") <=> (seq' = seq + 1)]_vars

(* A booking whose pre-check had passed lost the race at the INSERT.       *)
C2_Witness ==
    /\ last.msg = "BookFailed"
    /\ last.site = "add_insert"
    /\ seq = 1

(* C3: a well-formed booking that finds its start_time held, by the        *)
(* pre-check SELECT (when the time is not past) or by the uniqueness       *)
(* constraint at the INSERT, returns the same failure message and leaves   *)
(* the store and the id sequence unchanged.                                *)
C3_ConflictSameFailure ==
    /\ [](last.op = "book" /\ last.valid /\ last.booked
             /\ (last.site = "add_insert" \/ ~last.past)
             => last.msg = "BookFailed")
    /\ [][last'.op = "book" /\ last'.msg # "BookSuccess"
             => store' = store /\ seq' = seq]_vars

(* The constraint turned away a booking of a slot held by the same client: *)
(* a retry that raced the caller's own earlier booking.                    *)
C3_Witness ==
    /\ last.op = "book"
    /\ last.site = "add_insert"
    /\ last.msg = "BookFailed"
    /\ last.booked
    /\ ~last.other

(* C4: a well-formed booking of a start_time that is neither past nor      *)
(* booked returns success, and a booking that returns success adds exactly *)
(* one appointment: the given name, email and start_time, the configured   *)
(* duration and an id no other appointment has; all others are unchanged.  *)
C4_BookingAddsOne ==
    /\ [](last.op = "book" /\ last.valid /\ ~last.past /\ ~last.booked
             => last.msg = "BookSuccess")
    /\ [][\A p \in Procs :
              pc[p] = "add_insert" /\ pc'[p] = "idle"
                  /\ last'.msg = "BookSuccess"
              => \E r \in store' :
                     /\ r \notin store
                     /\ store' = store \cup {r}
                     /\ Cardinality(store') = Cardinality(store) + 1
                     /\ r.id \notin Ids(store)
                     /\ r.client_name = args[p].client_name
                     /\ r.email = args[p].email
                     /\ r.email \in Emails
                     /\ StartOf(r) = args[p].dt
                     /\ r.duration_minutes = APPOINTMENT_DURATION_MINUTES]_vars

(* A booking succeeded into a store that already held an appointment.      *)
C4_Witness ==
    /\ last.op = "book"
    /\ last.msg = "BookSuccess"
    /\ Cardinality(store) = 2

(* C5 (I2): every committed appointment lies inside the working window of  *)
(* its weekday.                                                            *)
C5_WithinWorkingHours == \A r \in store : InWorkingWindow(StartOf(r))

(* C6 (I3): a step that commits a new start_time, by a booking's INSERT or *)
(* a reschedule's UPDATE, commits one that is not earlier than the clock.  *)
C6_NotPastAtCommit ==
    [][\A r \in store' :
           (\A o \in store : o.id = r.id => StartOf(o) # StartOf(r))
               => StartOf(r) >= now]_vars

(* C7 (P7): a well-formed booking whose start_time is earlier than the     *)
(* clock when it is made returns the past-time failure, whether the slot   *)
(* is free or booked, goes no further and leaves the store unchanged.      *)
C7_PastTimeRejected ==
    /\ [](last.op = "book" /\ last.valid /\ last.site = "add_select"
             /\ last.past
             => last.msg = "BookPast")
    /\ [][/\ \A p \in Procs :
                 pc[p] = "idle" /\ pc'[p] = "add_insert"
                     => args'[p].dt >= now
          /\ last'.msg = "BookPast" => store' = store /\ seq' = seq]_vars

(* A booking of a booked slot was turned away as past-time.                *)
C7_Witness ==
    /\ last.op = "book"
    /\ last.msg = "BookPast"
    /\ last.booked

C10_RescheduleFrame ==
    [][\A p \in Procs :
           pc[p] = "upd_update" /\ pc'[p] = "idle"
               /\ last'.msg = "EditSuccess" /\ args[p].dt # args[p].old
           => /\ \E r \in store :
                     /\ r.id = args[p].original_id
                     /\ store' = (store \ {r}) \cup
                            {[r EXCEPT !.appointment_datetime =
                                            IsoFormat(args[p].dt)]}
              /\ Cardinality(store') = Cardinality(store)
              /\ BookedAt(store', args[p].dt)
              /\ ~BookedAt(store', args[p].old)]_vars

(* The appointments a cancellation of call c = <<datetime, name>> is for.  *)
CancelTargets(c) ==
    {r \in store : r.client_name = c[2] /\ StartOf(r) = Strptime(c[1])}

(* C11: a well-formed Cancel(start_time, client_name) for which an         *)
(* appointment with that start_time and client_name is in the store, as a  *)
(* successful booking under that name leaves it, returns success and       *)
(* removes exactly that appointment, every other one staying as it was;    *)
(* when no appointment matches both fields it returns the failure and      *)
(* removes nothing.                                                        *)
C11_CancelRemovesMatch ==
    [][last'.op = "cancel" =>
       \A p \in Procs, c \in CancelCalls :
           StrptimeOk(c[1]) /\ CancelAppointment(p, c[1], c[2])
           => IF CancelTargets(c) # {}
              THEN /\ last'.msg = "CancelSuccess"
                   /\ Cardinality(CancelTargets(c)) = 1
                   /\ store' = store \ CancelTargets(c)
                   /\ Cardinality(store') = Cardinality(store) - 1
              ELSE /\ last'.msg = "CancelFailed"
                   /\ store' = store]_vars

(* A cancellation succeeded and left another appointment in the store.     *)
C11_Witness ==
    /\ last.op = "cancel"
    /\ last.msg = "CancelSuccess"
    /\ last.found
    /\ store # {}

(* C12 (P6): a Cancel(T, name) while the appointment at T belongs to       *)
(* another client returns the failure and leaves the store, that           *)
(* appointment included, unchanged; whatever a Cancel removes matches both *)
(* the start_time and the client_name it was called with.                  *)
C12_CancelScoped ==
    [][last'.op = "cancel" =>
       \A p \in Procs, c \in CancelCalls :
           StrptimeOk(c[1]) /\ CancelAppointment(p, c[1], c[2])
           => /\ (\E r \in store : /\ StartOf(r) = Strptime(c[1])
                                   /\ r.client_name # c[2])
                  => last'.msg = "CancelFailed" /\ store' = store
              /\ store' \subseteq store
              /\ \A r \in store \ store' :
                     r.client_name = c[2] /\ StartOf(r) = Strptime(c[1])]_vars

(* A cancellation of another client's appointment was turned away.         *)
C12_Witness ==
    /\ last.op = "cancel"
    /\ last.msg = "CancelFailed"
    /\ last.other
    /\ store # {}

(* The tiling of a working date as the policy states it: open_time + k * D *)
(* for k = 0, 1, ... while open_time + (k + 1) * D <= close_time.          *)
Tiling(d) ==
    LET open_time == WORKING_HOURS[Weekday(d)][1]
        close_time == WORKING_HOURS[Weekday(d)][2]
        n == (close_time - open_time) \div APPOINTMENT_DURATION_MINUTES
    IN  [k \in 1..n |->
            UserFormat(DayStart(d) + open_time
                       + (k - 1) * APPOINTMENT_DURATION_MINUTES)]

IsWorkingDate(d) == Weekday(d) \in DOMAIN WORKING_HOURS

BookedOn(s, d) ==
    {r \in s : DayStart(d) <= StartOf(r) /\ StartOf(r) < DayStart(d) + 24 * 60}

StrictlyAscending(slots) ==
    \A i \in 1..Len(slots), j \in 1..Len(slots) :
        i < j => Strptime(slots[i]) < Strptime(slots[j])

IsFree(c) == ~BookedAt(store, Strptime(c))

(* C13 (P2): listing a working date that has no bookings returns exactly   *)
(* the tiling of its window, strictly ascending, with no partial trailing  *)
(* slot: for 09:00-17:00 and D = 60, the 8 slots 09:00, ..., 16:00.        *)
C13_SlotTiling ==
    [][last'.op = "slots" =>
       \A p \in Procs, d \in SlotDates :
           ListSlots(p, d) /\ IsWorkingDate(d) /\ BookedOn(store, d) = {}
           => /\ last'.slots = Tiling(d)
              /\ StrictlyAscending(last'.slots)
              /\ Len(last'.slots) = 8
              /\ \A k \in 1..8 :
                     last'.slots[k] =
                         UserFormat(DayStart(d) + At(0, 8 + k, 0))]_vars

(* A date without bookings was listed while the store held appointments on *)
(* another date, and its last slot ends at closing time.                   *)
C13_Witness ==
    /\ last.op = "slots"
    /\ Len(last.slots) = 8
    /\ store # {}
    /\ BookedOn(store, Strptime(last.slots[1])) = {}
    /\ TimeOfDay(Strptime(last.slots[8])) + APPOINTMENT_DURATION_MINUTES
           = WORKING_HOURS[0][2]

(* C14 (P4): listing a working date returns exactly the tiling candidates  *)
(* that are not the start_time of a committed appointment, in ascending    *)
(* order; an appointment whose start is not on the grid, or not on that    *)
(* date, suppresses no candidate.                                          *)
C14_BookedSuppression ==
    [][last'.op = "slots" =>
       \A p \in Procs, d \in SlotDates :
           ListSlots(p, d) /\ IsWorkingDate(d)
           => /\ last'.slots = SelectSeq(Tiling(d), IsFree)
              /\ StrictlyAscending(last'.slots)]_vars

(* Monday was listed with appointments at 10:00 and at 10:30: 10:00 is     *)
(* left out, and 11:00, which the 10:30 appointment overlaps, is not.      *)
C14_Witness ==
    /\ last.op = "slots"
    /\ BookedAt(store, At(0, 10, 0))
    /\ BookedAt(store, At(0, 10, 30))
    /\ \E k \in 1..Len(last.slots) : last.slots[k] = UserFormat(At(0, 11, 0))
    /\ ~\E k \in 1..Len(last.slots) : last.slots[k] = UserFormat(At(0, 10, 0))

(* C15 (P3): listing a date whose weekday has no working window returns    *)
(* the empty sequence, whatever the store holds.                           *)
C15_NonWorkingDayEmpty ==
    [][last'.op = "slots" =>
       \A p \in Procs, d \in SlotDates :
           ListSlots(p, d) /\ ~IsWorkingDate(d) => last'.slots = <<>>]_vars

(* A listing came back empty while the store held an appointment on a      *)
(* Saturday and appointments on working days.                              *)
C15_Witness ==
    /\ last.op = "slots"
    /\ last.slots = <<>>
    /\ BookedAt(store, At(5, 9, 0))
    /\ BookedAt(store, At(0, 9, 0))

Lists(slots, dt) == \E k \in 1..Len(slots) : slots[k] = UserFormat(dt)

(* C16 (E2E): under SpecE2E, from a store with 14:00 and 15:00 free, every *)
(* call of the scenario returns success: the booking leaves Alice's        *)
(* appointment at 14:00 as the only one, the reschedule leaves it at       *)
(* 15:00, the cancellation leaves the store empty as it was initially; a   *)
(* listing of the day excludes 14:00 and includes 15:00 after the booking, *)
(* excludes 15:00 and includes 14:00 after the reschedule, and includes    *)
(* both before the booking and after the cancellation.                     *)
C16_EndToEnd ==
    /\ [](last.op \in {"book", "edit", "cancel"}
             => last.msg \in {"BookSuccess", "EditSuccess", "CancelSuccess"})
    /\ [](last.op = "slots"
             => /\ store = {}
                    => /\ Lists(last.slots, E2ESlot14)
                       /\ Lists(last.slots, E2ESlot15)
                /\ OnlyAppointment(store, Alice, E2ESlot14)
                    => /\ ~Lists(last.slots, E2ESlot14)
                       /\ Lists(last.slots, E2ESlot15)
                /\ OnlyAppointment(store, Alice, E2ESlot15)
                    => /\ Lists(last.slots, E2ESlot14)
                       /\ ~Lists(last.slots, E2ESlot15))
    /\ [][/\ last'.op = "book"
              => store = {} /\ OnlyAppointment(store', Alice, E2ESlot14)
          /\ last'.op = "edit"
              => /\ OnlyAppointment(store, Alice, E2ESlot14)
                 /\ OnlyAppointment(store', Alice, E2ESlot15)
          /\ last'.op = "cancel"
              => /\ OnlyAppointment(store, Alice, E2ESlot15)
                 /\ store' = {}]_vars

(* The scenario ran to its end: the cancellation of the moved appointment  *)
(* succeeded and the store is empty again.                                 *)
C16_Witness ==
    /\ last.op = "cancel"
    /\ last.msg = "CancelSuccess"
    /\ store = {}
    /\ seq = 1

(* C17: the working-hours check of a timestamp answers true exactly when   *)
(* the timestamp's weekday is a working day, its time of day is at or      *)
(* after open_time and its time of day plus D is at or before close_time,  *)
(* also when start + D reaches or passes midnight.                         *)
C17_WithinHoursIff ==
    last.op = "hours"
        => \A p \in Procs : last.hours <=> InWorkingWindow(args[p].dt)

(* C18: the notification is made only by a booking whose INSERT has        *)
(* committed, never by a failed one, and leaves the store as it is; and    *)
(* whatever the notification's outcome, the booking hands back success     *)
(* and the appointment it committed is still in the store.                 *)
C18_NotifyAfterCommitOnly ==
    /\ [](last.op = "notify"
             => /\ last.msg = "BookSuccess"
                /\ Cardinality(store) = seq)
    /\ [][/\ last'.op = "notify"
              => /\ last.op = "book" /\ last.msg = "BookSuccess"
                 /\ store' = store
          /\ last.op = "book" /\ last.msg # "BookSuccess"
              => last'.op # "notify"
          /\ last'.op = "book" /\ last'.msg = "BookSuccess"
              => seq' = seq + 1 /\ Cardinality(store') = seq']_vars

(* The sending failed after the second booking had committed: both         *)
(* appointments are in the store.                                          *)
C18_Witness ==
    /\ last.op = "notify"
    /\ last.site = "notify_error"
    /\ Cardinality(store) = 2

Triples(s) ==
    {<<r.client_name, StartOf(r), r.duration_minutes>> : r \in s}

(* C19: under SpecPair, a booking of a slot that is not past when the call *)
(* is made never fails, however the two bookings' steps interleave; each   *)
(* commit adds the triple (client_name, start_time, duration) of its own   *)
(* call to whatever is committed already, so that after both the set of    *)
(* triples is the same whichever committed first.                          *)
C19_IndependentBookings ==
    /\ [](last.op = "book"
             => \/ last.msg = "BookSuccess"
                \/ last.site = "add_select" /\ last.msg = "BookPast"
                       /\ last.past)
    /\ [](Cardinality(store) = 2
             => \E a \in store, b \in store :
                    /\ a.client_name = Alice /\ b.client_name = Bob
                    /\ StartOf(a) # StartOf(b))
    /\ [][\A p \in Procs :
              pc[p] = "add_insert" /\ pc'[p] = "idle"
              => /\ last'.msg = "BookSuccess"
                 /\ Triples(store') =
                        Triples(store)
                            \cup {<<args[p].client_name, args[p].dt,
                                    APPOINTMENT_DURATION_MINUTES>>}
                 /\ Cardinality(store') = Cardinality(store) + 1]_vars

(* Both bookings are committed, Bob's first, although Alice holds the      *)
(* earlier slot.                                                           *)
C19_Witness ==
    /\ Cardinality(store) = 2
    /\ last.msg = "BookSuccess"
    /\ \E a \in store, b \in store :
           /\ a.client_name = Alice /\ a.id = 2
           /\ b.client_name = Bob /\ b.id = 1
           /\ StartOf(a) < StartOf(b)

Successes == {"BookSuccess", "EditSuccess", "CancelSuccess"}

(* C20: a step by which a booking, a reschedule or a cancellation returns  *)
(* a failure of any kind (invalid input, past time, out of hours, slot     *)
(* booked, not found, a storage error at any statement) leaves the set of  *)
(* committed appointments as it was, and so does every earlier step of a   *)
(* transaction: only the step that returns success writes.                 *)
C20_FailureAtomicity ==
    [][/\ last'.op \in {"book", "edit", "cancel"}
              /\ last'.msg \notin Successes
          => store' = store /\ seq' = seq
       /\ last'.op = "none" => store' = store /\ seq' = seq]_vars

(* An UPDATE that had moved the appointment in its open transaction was    *)
(* rolled back after a storage error.                                      *)
C20_Witness ==
    /\ last.op = "edit"
    /\ last.site = "upd_error"
    /\ last.msg = "EditFailed"
    /\ last.found
    /\ ~last.booked
    /\ store # {}

StorageErrorSites ==
    {"add_connect_error", "add_select_error", "add_insert_error",
     "is_booked_error", "upd_connect_error", "upd_error"}

ErrorResults == {"BookFailed", "EditFailed", "EditInternalError"}

(* C23: when opening the connection or a statement of a booking or a       *)
(* reschedule raises a storage error, the operation returns one of its     *)
(* error results, never an exception, and the store and the id sequence    *)
(* are as they were.                                                       *)
C23_StorageErrorReturned ==
    [][last'.site \in StorageErrorSites
          => /\ last'.msg \in ErrorResults
             /\ store' = store
             /\ seq' = seq]_vars

(* C24: a reschedule that returns success has moved an appointment whose   *)
(* start_time was current_start_time when the UPDATE was made; so of two   *)
(* reschedules of one appointment to two different free slots, with their  *)
(* lookups and updates interleaved, at most one returns success.           *)
C24_MovesFromCurrent ==
    [][\A p \in Procs :
           pc[p] = "upd_update" /\ pc'[p] = "idle" /\ last'.msg = "EditSuccess"
           => \E r \in store : /\ r.id = args[p].original_id
                                /\ StartOf(r) = args[p].old]_vars

(* C25: a reschedule whose appointment has been cancelled between its      *)
(* lookup and its UPDATE returns the failure and changes nothing, also     *)
(* when appointments were booked in between: every new appointment gets an *)
(* id beyond all ids assigned before, the ids in the store are distinct,   *)
(* and an id stays with its appointment (name, email, booked_at,           *)
(* duration) as long as it is stored.                                      *)
C25_CancelledBeforeUpdate ==
    /\ [](\A a \in store, b \in store : a # b => a.id # b.id)
    /\ [][/\ \A r \in store' : r.id \notin Ids(store) => r.id > seq
          /\ \A r \in store', o \in store :
                 r.id = o.id
                 => r = [o EXCEPT !.appointment_datetime =
                                      r.appointment_datetime]
          /\ \A p \in Procs :
                 pc[p] = "upd_update" /\ pc'[p] = "idle"
                     /\ args[p].original_id \notin Ids(store)
                 => last'.msg = "EditFailed" /\ store' = store]_vars

(* The UPDATE of a reschedule found its appointment gone (the new slot     *)
(* still free), with a second appointment booked and in the store.         *)
C25_Witness ==
    /\ last.op = "edit"
    /\ last.site = "upd_update"
    /\ last.msg = "EditFailed"
    /\ ~last.found
    /\ ~last.booked
    /\ seq = 2
    /\ Ids(store) = {2}

(* The appointments whose start_time a step changes.                       *)
Moved == {r \in store : \E n \in store' : n.id = r.id /\ StartOf(n) # StartOf(r)}

C27_NoOverlap ==
    \A a \in store, b \in store :
        a # b => \/ StartOf(a) + a.duration_minutes <= StartOf(b)
                 \/ StartOf(b) + b.duration_minutes <= StartOf(a)

(* C28: under SpecBookable, where every booking is of a slot of the        *)
(* listing just returned, under a non-empty name and with no other commit  *)
(* in between, every booking returns success, also when the day listed is  *)
(* the current day and part of its window has passed.                      *)
C28_ListedSlotBookable ==
    last.op = "book" => last.msg = "BookSuccess"

(* The tiling grid of a date: open_time + k * D for k = 0, 1, ... as far   *)
(* as the date goes; empty when the date has no working window.            *)
Grid(d) ==
    IF ~IsWorkingDate(d) THEN {}
    ELSE {t \in {DayStart(d) + WORKING_HOURS[Weekday(d)][1]
                    + k * APPOINTMENT_DURATION_MINUTES : k \in 0..23} :
             t < DayStart(d) + 24 * 60}

(* C29: for every date listed and every store, each slot the listing       *)
(* returns passes the working-hours check, and every timestamp of the      *)
(* date's grid that passes the working-hours check and is not booked is in *)
(* the listing.                                                            *)
C29_CalculatorValidatorAgree ==
    [][last'.op = "slots" =>
       \A p \in Procs, d \in SlotDates :
           ListSlots(p, d)
           => /\ \A k \in 1..Len(last'.slots) :
                     IsSlotWithinWorkingHours(Strptime(last'.slots[k]))
              /\ \A t \in Grid(d) :
                     IsSlotWithinWorkingHours(t) /\ ~BookedAt(store, t)
                     => Lists(last'.slots, t)]_vars

(* p has made the tool part of a reschedule in this step: the call        *)
(* returned from the tool's checks, or went on to the update.              *)
EditCallStep(p) ==
    /\ pc[p] = "idle"
    /\ \/ pc'[p] = "upd_select_new"
       \/ last'.op = "edit" /\ last'.site = "is_booked"

(* The calls that ask to move an appointment to the slot it has.           *)
SameSlotCalls == {c \in EditCalls : c[2] = c[3] /\ StrptimeOk(c[2])}

(* The client has an appointment at the slot of the call c.                *)
OwnAppointment(c) ==
    /\ Strip(c[1]) # <<>>
    /\ MatchingRows(store, Strip(c[1]), IsoFormat(Strptime(c[2]))) # {}

====
